---- MODULE Spec2Model ----
(***************************************************************************)
(* A model of src/app.py, the AgriBuddy Streamlit script.                  *)
(*                                                                         *)
(* The script is executed from top to bottom once per user event (a pass). *)
(* st.session_state (history, language, tts_enabled, chat) survives from   *)
(* one pass to the next; everything else is local to a pass.  A pass is    *)
(* suspended while a remote call is in flight (speech-to-text, the         *)
(* streamed reply, text-to-speech), so each remote outcome is one step.    *)
(*                                                                         *)
(* A string is modelled as a sequence of tokens: "" is << >>, s1 + s2 is   *)
(* s1 \o s2, and Python truthiness of a string is non-emptiness.  None, as *)
(* the value of user_prompt, is << >> too: the script only ever tests      *)
(* user_prompt for truthiness.                                             *)
(*                                                                         *)
(* Both tabs of line 107 share st.session_state; the "Chat History" tab    *)
(* (lines 187-196) only reads it, so the passes below are those of the     *)
(* "New Chat" tab (lines 110-185).                                         *)
(***************************************************************************)
EXTENDS Naturals, Sequences, FiniteSets, TLC

VARIABLES
    \* st.session_state
    history,        \* list of {"role", "text"}
    language,       \* the configured response language
    tts_enabled,    \* the "Enable TTS" toggle
    chat,           \* the stored chat session
    \* module level, per pass
    eleven_client,  \* the ElevenLabs client, or None
    pc,             \* where the script is: load, crashed, idle, stt, model,
                    \* stream, commit, tts
    mic_audio,      \* what mic_recorder returned to this pass
    user_prompt,    \* what chat_input returned, then possibly the transcript
    bot_text,       \* the accumulated reply
    placeholder,    \* what the assistant placeholder shows
    stream,         \* fragments the remote reply has still to deliver
    \* what the pass did to the outside world
    sent,           \* send_message calls of this pass
    spoken,         \* text_to_speech.convert calls of this pass
    created,        \* start_chat calls of this pass
    printed,        \* lines this pass printed on the console
    played,         \* whether st.audio was reached in this pass
    \* history variables, used only to state properties
    event,          \* the event that started this pass
    typed,          \* what chat_input returned to this pass
    h0,             \* history when this pass reached the main content
    received,       \* concatenation of the fragments received in this pass
    exc,            \* << e >> when the try block of this pass raised e
    outcome,        \* none, open, complete or cancelled: this pass's turn
    turns,          \* resolved inputs of the turns started since the last clear
    aborted,        \* a turn was cancelled since the last clear
    staleChat,      \* the stored session existed at the last clear
    sameContext,    \* the last completed turn called send_message, and no
                    \* clear or language change happened since
    uncaught,       \* << e >> when e left the script uncaught
    raisedAt,       \* none, create or send: where the try block raised
    reply,          \* the fragments of the reply send_message returned
    heard           \* << t >> when speech-to-text returned t in this pass

vars == << history, language, tts_enabled, chat, eleven_client, pc, mic_audio,
           user_prompt, bot_text, placeholder, stream, sent, spoken, created,
           printed, played, event, typed, h0, received, exc, outcome, turns,
           aborted, staleChat, sameContext, uncaught, raisedAt, reply, heard >>

-----------------------------------------------------------------------------
(* Bounds and input sets *)

MaxTurns == 2

None == "None"
NoText == << >>

\* The options of the language selectbox.
Languages == {"Malayalam", "English", "Hindi", "Spanish"}

\* The languages the user picks in the checked behaviours.
LanguageChoices == {"Malayalam", "English"}

\* Values of st.session_state.language the lookup of lines 131-133 is
\* checked on: the table's keys and two that are not in the table.
ConfiguredLanguages == Languages \cup {"Tamil", ""}

\* Texts submitted through chat_input (never empty).
Prompts == { <<"rain?">> }

\* Texts speech-to-text may return (possibly empty).
Transcripts == { << >>, <<"soil?">> }

\* Replies the remote model may stream: each a finite sequence of fragments.
Replies == { << <<"Hello">>, <<" world">> >>, << << >>, <<"Ok">> >>, << >> }

\* Messages of the exceptions a remote call may raise.
Errors == { <<"timeout">> }

-----------------------------------------------------------------------------
(* Data *)

Truthy(s) == Len(s) > 0

UserTurn(t) == [role |-> "user", text |-> t]

AssistantTurn(t) == [role |-> "assistant", text |-> t]

\* The in-progress cursor of line 166 (U+258C), written "|" here.
Marker == <<"|">>

\* The prefix of line 169; its warning sign (U+26A0 U+FE0F) is written "(!)" here.
GeminiErrorPrefix == <<"(!) Gemini error: ">>

IsPrefix(p, s) == Len(p) <= Len(s) /\ SubSeq(s, 1, Len(p)) = p

\* s contains p as a contiguous substring
Contains(s, p) == \E i \in 0..(Len(s) - Len(p)) : SubSeq(s, i + 1, i + Len(p)) = p

IsErrorText(t) == IsPrefix(GeminiErrorPrefix, t)

lang_voice_map ==
    [l \in Languages |->
        CASE l = "Malayalam" -> [code |-> "ml", voice |-> "Aria"]
          [] l = "Hindi"     -> [code |-> "hi", voice |-> "Aria"]
          [] l = "English"   -> [code |-> "en", voice |-> "Bella"]
          [] l = "Spanish"   -> [code |-> "es", voice |-> "Sofia"]]

FallbackToFirst(l) ==
    IF l \in DOMAIN lang_voice_map THEN lang_voice_map[l]
    ELSE lang_voice_map["Malayalam"]

lang_config(l) ==
    IF l \in DOMAIN lang_voice_map THEN lang_voice_map[l]
    ELSE [code |-> "en", voice |-> "Bella"]

selected_lang == language

lang_code == lang_config(selected_lang).code

voice_name == lang_config(selected_lang).voice

\* "chat" is not in st.session_state.
NoSession == [lang |-> None, memory |-> << >>]

\* A chat session: the language of its system instruction and the prompts
\* sent on it so far (what the remote conversation remembers).
NewSessionMalayalam(l) == [lang |-> "Malayalam", memory |-> << >>]

NewSession(l) == [lang |-> l, memory |-> << >>]

\* The session a turn sends on, and how many sessions it created for that.
ReuseSession(c, l) ==
    IF c.lang = l THEN [chat |-> c, created |-> 0]
    ELSE [chat |-> NewSession(l), created |-> 1]

TurnSession(c, l) == [chat |-> NewSession(l), created |-> 1]

\* bot_text after a fragment with text.
OverwriteWithChunk(b, c) == c

Accumulate(b, c) == b \o c

\* The reply text the except branch substitutes.
KeepPartial(e) == bot_text \o GeminiErrorPrefix \o e

UnmarkedError(e) == e

ExceptText(e) == GeminiErrorPrefix \o e

\* History after the Clear Chat History button.
ClearedHistory == << >>

\* History after the assistant append.
AppendUnlessEmpty(h, t) == IF Truthy(t) THEN Append(h, AssistantTurn(t)) ELSE h

OverwriteLast(h, t) ==
    IF Len(h) > 0 THEN [h EXCEPT ![Len(h)] = AssistantTurn(t)]
    ELSE << AssistantTurn(t) >>

AppendAssistant(h, t) == Append(h, AssistantTurn(t))

\* History after the user append.
PrependUser(h, t) == << UserTurn(t) >> \o h

AppendUser(h, t) == Append(h, UserTurn(t))

\* user_prompt after speech-to-text returned t.
PreferTyped(t) == IF Truthy(user_prompt) THEN user_prompt ELSE t

ResolvedInput(t) == t

\* user_prompt after the except branch of speech-to-text: left as it was.
DropPrompt == NoText

PromptAfterSTTFailure == user_prompt

STTErrorLine == "[ERROR] STT failed, fallback to text input."

TTSErrorLine == "[ERROR] TTS failed, showing text only."

\* The guard of the TTS reply.
GuardIgnoresToggle == Truthy(bot_text) /\ eleven_client # None

TTSGuard == tts_enabled /\ Truthy(bot_text) /\ eleven_client # None

\* The model bounds the number of entries of history.
RoomForTurn(h) == Len(h) + 2 <= 2 * MaxTurns

-----------------------------------------------------------------------------
(* The first execution of the script has reached line 67: lines 53-66 have
   set the clients and the session state, "chat" is not in it yet. *)

Init ==
    /\ history = << >>
    /\ language = "Malayalam"
    /\ tts_enabled = TRUE
    /\ chat = NoSession
    /\ eleven_client \in {"client", None}
    /\ pc = "load"
    /\ mic_audio = None
    /\ user_prompt = NoText
    /\ bot_text = << >>
    /\ placeholder = << >>
    /\ stream = << >>
    /\ sent = << >>
    /\ spoken = << >>
    /\ created = 0
    /\ printed = << >>
    /\ played = FALSE
    /\ event = "load"
    /\ typed = NoText
    /\ h0 = << >>
    /\ received = << >>
    /\ exc = << >>
    /\ outcome = "none"
    /\ turns = << >>
    /\ aborted = FALSE
    /\ staleChat = FALSE
    /\ sameContext = FALSE
    /\ uncaught = << >>
    /\ raisedAt = "none"
    /\ reply = << >>
    /\ heard = << >>

-----------------------------------------------------------------------------
(* Lines 67-72: the first session is created, outside any try block *)

LoadSucceeds ==
    /\ pc = "load"
    /\ chat' = NewSession("Malayalam")
    /\ created' = 1
    /\ pc' = "idle"
    /\ UNCHANGED << history, language, tts_enabled, eleven_client, mic_audio,
                    user_prompt, bot_text, placeholder, stream, sent, spoken,
                    printed, played, event, typed, h0, received, exc, outcome,
                    turns, aborted, staleChat, sameContext, uncaught,
                    raisedAt, reply, heard >>

(* Lines 68-72 raise: nothing catches the exception and the script stops there;
   "chat" stays out of st.session_state. *)
LoadFails(e) ==
    /\ pc = "load"
    /\ uncaught' = << e >>
    /\ pc' = "crashed"
    /\ UNCHANGED << history, language, tts_enabled, chat, eleven_client,
                    mic_audio, user_prompt, bot_text, placeholder, stream,
                    sent, spoken, created, printed, played, event, typed, h0,
                    received, exc, outcome, turns, aborted, staleChat,
                    sameContext, raisedAt, reply, heard >>

(* The script is run again after it stopped at lines 68-72 (no widget was
   rendered, so no input comes with this run). *)
Reload ==
    /\ pc = "crashed"
    /\ uncaught' = << >>
    /\ pc' = "load"
    /\ UNCHANGED << history, language, tts_enabled, chat, eleven_client,
                    mic_audio, user_prompt, bot_text, placeholder, stream,
                    sent, spoken, created, printed, played, event, typed, h0,
                    received, exc, outcome, turns, aborted, staleChat,
                    sameContext, raisedAt, reply, heard >>

-----------------------------------------------------------------------------
(* Lines 148-155: the turn begins when user_prompt is truthy *)

BeginTurn(h, p, ts) ==
    /\ user_prompt' = p
    /\ IF Truthy(p)
       THEN /\ history' = AppendUser(h, p)
            /\ turns' = Append(ts, p)
            /\ outcome' = "open"
            /\ pc' = "model"
       ELSE /\ history' = h
            /\ turns' = ts
            /\ outcome' = "none"
            /\ pc' = "idle"

(* Lines 82-86 and 121-149: a pass from its start to its first remote call.
   t and l are the values of the toggle and the selectbox, clear the button,
   mic what mic_recorder returns and text what chat_input returns.  After the
   button the script is rerun at once (st.rerun), with the button released and
   chat_input empty. *)
StartPass(ev, t, l, clear, mic, text) ==
    /\ pc = "idle"
    /\ (mic # None \/ Truthy(text)) => RoomForTurn(IF clear THEN ClearedHistory ELSE history)
    /\ event' = ev
    /\ tts_enabled' = t
    /\ language' = l
    /\ mic_audio' = mic
    /\ staleChat' = (clear \/ staleChat)
    /\ aborted' = (~clear /\ aborted)
    /\ sameContext' = (sameContext /\ ~clear /\ l = language)
    /\ bot_text' = << >>
    /\ placeholder' = << >>
    /\ stream' = << >>
    /\ sent' = << >>
    /\ spoken' = << >>
    /\ created' = 0
    /\ printed' = << >>
    /\ played' = FALSE
    /\ received' = << >>
    /\ exc' = << >>
    /\ raisedAt' = "none"
    /\ reply' = << >>
    /\ heard' = << >>
    /\ LET h == IF clear THEN ClearedHistory ELSE history
           p == IF clear THEN NoText ELSE text
           ts == IF clear THEN << >> ELSE turns
       IN  /\ typed' = p
           /\ h0' = h
           /\ IF mic # None /\ eleven_client # None
              THEN /\ pc' = "stt"
                   /\ user_prompt' = p
                   /\ history' = h
                   /\ turns' = ts
                   /\ outcome' = "none"
              ELSE BeginTurn(h, p, ts)
    /\ UNCHANGED << chat, eleven_client, uncaught >>

SubmitText(text, mic) ==
    StartPass("text", tts_enabled, language, FALSE, mic, text)

RecordAudio ==
    StartPass("audio", tts_enabled, language, FALSE, "audio", NoText)

ToggleTTS(mic) ==
    StartPass("toggle", ~tts_enabled, language, FALSE, mic, NoText)

SelectLanguage(l, mic) ==
    /\ l # language
    /\ StartPass("language", tts_enabled, l, FALSE, mic, NoText)

ClearChatHistory(mic) ==
    StartPass("clear", tts_enabled, language, TRUE, mic, NoText)

-----------------------------------------------------------------------------
(* Lines 140-146: speech-to-text returns, or raises *)

STTSucceeds(t) ==
    /\ pc = "stt"
    /\ BeginTurn(history, ResolvedInput(t), turns)
    /\ UNCHANGED << language, tts_enabled, chat, eleven_client, mic_audio,
                    bot_text, placeholder, stream, sent, spoken, created,
                    printed, played, event, typed, h0, received, exc, aborted,
                    staleChat, sameContext >>
    /\ heard' = << t >>
    /\ UNCHANGED << uncaught, raisedAt, reply >>

STTFails ==
    /\ pc = "stt"
    /\ printed' = Append(printed, STTErrorLine)
    /\ BeginTurn(history, PromptAfterSTTFailure, turns)
    /\ UNCHANGED << language, tts_enabled, chat, eleven_client, mic_audio,
                    bot_text, placeholder, stream, sent, spoken, created,
                    played, event, typed, h0, received, exc, aborted,
                    staleChat, sameContext >>
    /\ UNCHANGED << uncaught, raisedAt, reply, heard >>

-----------------------------------------------------------------------------
(* Lines 157-163: a session is created and send_message is called on it *)

StartChat(r) ==
    /\ pc = "model"
    /\ LET s == TurnSession(chat, selected_lang)
       IN  /\ chat' = [s.chat EXCEPT !.memory = Append(@, user_prompt)]
           /\ created' = created + s.created
           /\ staleChat' = (s.created = 0 /\ staleChat)
           /\ sent' = Append(sent, [lang |-> s.chat.lang, prompt |-> user_prompt])
    /\ stream' = r
    /\ pc' = "stream"
    /\ UNCHANGED << history, language, tts_enabled, eleven_client, mic_audio,
                    user_prompt, bot_text, placeholder, spoken, printed,
                    played, event, typed, h0, received, exc, outcome, turns,
                    aborted, sameContext >>
    /\ reply' = r
    /\ UNCHANGED << uncaught, raisedAt, heard >>

(* A turn that, when the creation raises, would send on the stored session. *)
CreateSessionFailsUsesStale(e) ==
    /\ pc = "model"
    /\ exc' = << e >>
    /\ raisedAt' = "create"
    /\ chat' = [chat EXCEPT !.memory = Append(@, user_prompt)]
    /\ sent' = Append(sent, [lang |-> chat.lang, prompt |-> user_prompt])
    /\ \E r \in Replies : stream' = r /\ reply' = r
    /\ pc' = "stream"
    /\ UNCHANGED << history, language, tts_enabled, eleven_client,
                    mic_audio, user_prompt, bot_text, placeholder, spoken,
                    created, printed, played, event, typed, h0, received,
                    outcome, turns, aborted, staleChat, sameContext,
                    uncaught, heard >>

(* Lines 158-162 raise: the except branch of lines 168-170 *)
CreateSessionFails(e) ==
    /\ pc = "model"
    /\ exc' = << e >>
    /\ bot_text' = ExceptText(e)
    /\ placeholder' = bot_text'
    /\ pc' = "commit"
    /\ UNCHANGED << history, language, tts_enabled, chat, eleven_client,
                    mic_audio, user_prompt, stream, sent, spoken, created,
                    printed, played, event, typed, h0, received, outcome,
                    turns, aborted, staleChat, sameContext >>
    /\ raisedAt' = "create"
    /\ UNCHANGED << uncaught, reply, heard >>

(* Lines 163-166: one fragment arrives *)
NextChunk ==
    /\ pc = "stream"
    /\ stream # << >>
    /\ stream' = Tail(stream)
    /\ IF Truthy(Head(stream))
       THEN /\ bot_text' = Accumulate(bot_text, Head(stream))
            /\ placeholder' = bot_text' \o Marker
            /\ received' = received \o Head(stream)
       ELSE UNCHANGED << bot_text, placeholder, received >>
    /\ UNCHANGED << history, language, tts_enabled, chat, eleven_client, pc,
                    mic_audio, user_prompt, sent, spoken, created, printed,
                    played, event, typed, h0, exc, outcome, turns, aborted,
                    staleChat, sameContext >>
    /\ UNCHANGED << uncaught, raisedAt, reply, heard >>

(* A loop that would start the reply over when the stream is exhausted. *)
StreamRestarts ==
    /\ pc = "stream"
    /\ stream = << >>
    /\ stream' = reply
    /\ bot_text' = << >>
    /\ received' = << >>
    /\ placeholder' = << >>
    /\ UNCHANGED << history, language, tts_enabled, chat, eleven_client, pc,
                    mic_audio, user_prompt, sent, spoken, created, printed,
                    played, event, typed, h0, exc, outcome, turns, aborted,
                    staleChat, sameContext, uncaught, raisedAt, reply, heard >>

(* Line 167: the stream is exhausted *)
StreamEnds ==
    /\ pc = "stream"
    /\ stream = << >>
    /\ placeholder' = bot_text
    /\ pc' = "commit"
    /\ UNCHANGED << history, language, tts_enabled, chat, eleven_client,
                    mic_audio, user_prompt, bot_text, stream, sent, spoken,
                    created, printed, played, event, typed, h0, received, exc,
                    outcome, turns, aborted, staleChat, sameContext >>
    /\ UNCHANGED << uncaught, raisedAt, reply, heard >>

(* Lines 168-170: send_message or the iteration raises, at any point *)
StreamFails(e) ==
    /\ pc = "stream"
    /\ exc' = << e >>
    /\ bot_text' = ExceptText(e)
    /\ placeholder' = bot_text'
    /\ stream' = << >>
    /\ pc' = "commit"
    /\ UNCHANGED << history, language, tts_enabled, chat, eleven_client,
                    mic_audio, user_prompt, sent, spoken, created, printed,
                    played, event, typed, h0, received, outcome, turns,
                    aborted, staleChat, sameContext >>
    /\ raisedAt' = "send"
    /\ UNCHANGED << uncaught, reply, heard >>

(* Lines 172-179: the assistant append, the TTS guard and the TTS call *)
Commit ==
    /\ pc = "commit"
    /\ history' = AppendAssistant(history, bot_text)
    /\ outcome' = "complete"
    /\ sameContext' = (Len(sent) > 0)
    /\ IF TTSGuard
       THEN /\ spoken' = Append(spoken, [voice |-> voice_name, text |-> bot_text,
                                         language_code |-> lang_code])
            /\ pc' = "tts"
       ELSE /\ spoken' = spoken
            /\ pc' = "idle"
    /\ UNCHANGED << language, tts_enabled, chat, eleven_client, mic_audio,
                    user_prompt, bot_text, placeholder, stream, sent, created,
                    printed, played, event, typed, h0, received, exc, turns,
                    aborted, staleChat >>
    /\ UNCHANGED << uncaught, raisedAt, reply, heard >>

(* Lines 180-183: text-to-speech returned audio *)
TTSSucceeds ==
    /\ pc = "tts"
    /\ played' = TRUE
    /\ pc' = "idle"
    /\ UNCHANGED << history, language, tts_enabled, chat, eleven_client,
                    mic_audio, user_prompt, bot_text, placeholder, stream,
                    sent, spoken, created, printed, event, typed, h0,
                    received, exc, outcome, turns, aborted, staleChat,
                    sameContext >>
    /\ UNCHANGED << uncaught, raisedAt, reply, heard >>

(* An except branch that would call text-to-speech again. *)
TTSFailsRetries ==
    /\ pc = "tts"
    /\ printed' = Append(printed, TTSErrorLine)
    /\ spoken' = Append(spoken, spoken[Len(spoken)])
    /\ pc' = "tts"
    /\ UNCHANGED << history, language, tts_enabled, chat, eleven_client,
                    mic_audio, user_prompt, bot_text, placeholder, stream,
                    sent, created, played, event, typed, h0,
                    received, exc, outcome, turns, aborted, staleChat,
                    sameContext >>
    /\ UNCHANGED << uncaught, raisedAt, reply, heard >>

(* Lines 184-185: text-to-speech raised *)
TTSFails ==
    /\ pc = "tts"
    /\ printed' = Append(printed, TTSErrorLine)
    /\ pc' = "idle"
    /\ UNCHANGED << history, language, tts_enabled, chat, eleven_client,
                    mic_audio, user_prompt, bot_text, placeholder, stream,
                    sent, spoken, created, played, event, typed, h0,
                    received, exc, outcome, turns, aborted, staleChat,
                    sameContext >>
    /\ UNCHANGED << uncaught, raisedAt, reply, heard >>

(* A rerun that would commit what was accumulated before dropping the pass. *)
CancelCommitsPartial ==
    /\ \/ pc \in {"model", "commit"}
       \/ pc = "stream" /\ Truthy(placeholder)
    /\ pc' = "idle"
    /\ outcome' = "cancelled"
    /\ aborted' = TRUE
    /\ stream' = << >>
    /\ history' = IF Truthy(bot_text) THEN AppendAssistant(history, bot_text)
                  ELSE history
    /\ UNCHANGED << language, tts_enabled, chat, eleven_client,
                    mic_audio, user_prompt, bot_text, placeholder, sent,
                    spoken, created, printed, played, event, typed, h0,
                    received, exc, turns, staleChat, sameContext >>
    /\ UNCHANGED << uncaught, raisedAt, reply, heard >>

(* The host reruns the script while a turn is between its user append and its
   assistant append: the pass is dropped where it displays something (lines
   150-155, 166, 167, 170), and line 172 is never reached. *)
Cancel ==
    /\ \/ pc \in {"model", "commit"}
       \/ pc = "stream" /\ Truthy(placeholder)
    /\ pc' = "idle"
    /\ outcome' = "cancelled"
    /\ aborted' = TRUE
    /\ stream' = << >>
    /\ UNCHANGED << history, language, tts_enabled, chat, eleven_client,
                    mic_audio, user_prompt, bot_text, placeholder, sent,
                    spoken, created, printed, played, event, typed, h0,
                    received, exc, turns, staleChat, sameContext >>
    /\ UNCHANGED << uncaught, raisedAt, reply, heard >>

-----------------------------------------------------------------------------

Next ==
    \/ LoadSucceeds
    \/ \E e \in Errors : LoadFails(e)
    \/ Reload
    \/ \E p \in Prompts, mic \in {None, "audio"} : SubmitText(p, mic)
    \/ RecordAudio
    \/ \E mic \in {None, "audio"} : ToggleTTS(mic)
    \/ \E l \in LanguageChoices, mic \in {None, "audio"} : SelectLanguage(l, mic)
    \/ \E mic \in {None, "audio"} : ClearChatHistory(mic)
    \/ \E t \in Transcripts : STTSucceeds(t)
    \/ STTFails
    \/ \E r \in Replies : StartChat(r)
    \/ \E e \in Errors : CreateSessionFails(e)
    \/ NextChunk
    \/ StreamEnds
    \/ \E e \in Errors : StreamFails(e)
    \/ Commit
    \/ TTSSucceeds
    \/ TTSFails
    \/ Cancel

Spec == Init /\ [][Next]_vars

(* A pass that is waiting for a remote call gets its answer or its failure,
   and a pass that is not waiting takes its next step. *)
PassStep ==
    \/ \E t \in Transcripts : STTSucceeds(t)
    \/ STTFails
    \/ \E r \in Replies : StartChat(r)
    \/ \E e \in Errors : CreateSessionFails(e)
    \/ NextChunk
    \/ StreamEnds
    \/ \E e \in Errors : StreamFails(e)
    \/ Commit
    \/ TTSSucceeds
    \/ TTSFails

FairSpec == Init /\ [][Next]_vars /\ WF_vars(PassStep)

-----------------------------------------------------------------------------
(* The script with st.session_state.language holding any configured value,
   kept by every pass: the passes that read lang_code and voice_name. *)

InitLookup ==
    /\ history = << >>
    /\ language \in ConfiguredLanguages
    /\ tts_enabled = TRUE
    /\ chat = NoSession
    /\ eleven_client \in {"client", None}
    /\ pc = "load"
    /\ mic_audio = None
    /\ user_prompt = NoText
    /\ bot_text = << >>
    /\ placeholder = << >>
    /\ stream = << >>
    /\ sent = << >>
    /\ spoken = << >>
    /\ created = 0
    /\ printed = << >>
    /\ played = FALSE
    /\ event = "load"
    /\ typed = NoText
    /\ h0 = << >>
    /\ received = << >>
    /\ exc = << >>
    /\ outcome = "none"
    /\ turns = << >>
    /\ aborted = FALSE
    /\ staleChat = FALSE
    /\ sameContext = FALSE
    /\ uncaught = << >>
    /\ raisedAt = "none"
    /\ reply = << >>
    /\ heard = << >>

NextLookup ==
    \/ LoadSucceeds
    \/ \E p \in Prompts : SubmitText(p, None)
    \/ RecordAudio
    \/ \E t \in Transcripts : STTSucceeds(t)
    \/ STTFails
    \/ \E r \in Replies : StartChat(r)
    \/ NextChunk
    \/ StreamEnds
    \/ \E e \in Errors : StreamFails(e)
    \/ Commit
    \/ TTSSucceeds
    \/ TTSFails

SpecLookup == InitLookup /\ [][NextLookup]_vars

-----------------------------------------------------------------------------
(* Properties *)

\* speech-to-text raised in this pass
sttFailed == \E i \in 1..Len(printed) : printed[i] = STTErrorLine

\* text-to-speech raised in this pass
ttsFailed == \E i \in 1..Len(printed) : printed[i] = TTSErrorLine

\* send_message, or the iteration over its result, raised in this pass
streamFailed == exc # << >> /\ Len(sent) > 0

\* this pass's turn has its user entry at UserIdx and its assistant entry next
UserIdx == Len(h0) + 1

AssistantIdx == Len(h0) + 2

\* C1: when no turn is in progress and no turn was cancelled since the last
\* clear, the N turns begun since that clear left exactly 2N entries: for the
\* i-th turn its user entry, with the input as submitted, directly followed
\* by an assistant entry.
C1_TwoEntriesPerTurn ==
    (pc \in {"idle", "tts"} /\ ~aborted) =>
        /\ Len(history) = 2 * Len(turns)
        /\ \A i \in 1..Len(turns) :
              /\ history[2 * i - 1] = UserTurn(turns[i])
              /\ history[2 * i].role = "assistant"

C1_Witness ==
    /\ pc = "idle" /\ ~aborted
    /\ Len(turns) = 2 /\ turns[1] # turns[2]
    /\ Len(history) = 4
    /\ history[2].text = << >>

\* C2: every send_message call of a pass was made on a session whose system
\* instruction names the configured language, the session stored while the
\* reply streams is that session, and a pass creates at most one session.
C2_SendOnCurrentLanguage ==
    /\ \A i \in 1..Len(sent) : sent[i].lang = language
    /\ pc = "stream" => chat.lang = language
    /\ created <= 1

C2_Witness ==
    /\ language = "English" /\ event # "language"
    /\ pc = "stream" /\ Len(sent) = 1 /\ sent[1].lang = "English"
    /\ Len(history) >= 3

\* C3 (as claimed): a turn whose predecessor completed, with no clear and no
\* language change since, creates no session and sends on the session that
\* already holds the predecessor's prompt.
C3_ReusesSession ==
    (sameContext /\ pc \in {"stream", "commit"} /\ Len(sent) > 0) =>
        /\ created = 0
        /\ Len(chat.memory) >= 2

\* C4: right after the clear button history is empty, and a pass that has
\* called send_message did so on a session created after the last clear.
C4_ClearInvalidatesSession ==
    /\ (event = "clear" /\ outcome = "none") => history = << >>
    /\ Len(sent) > 0 => ~staleChat

C4_Witness ==
    /\ event = "clear" /\ pc = "stream" /\ Len(sent) = 1
    /\ history = << UserTurn(user_prompt) >>

C6_StreamFailureEndsTurn ==
    streamFailed =>
        /\ pc \in {"commit", "tts", "idle"} /\ stream = << >>
        /\ Len(sent) = 1
        /\ IsErrorText(bot_text)
        /\ pc \in {"tts", "idle"} => outcome \in {"complete", "cancelled"}
        /\ outcome = "complete" =>
              /\ Len(history) = AssistantIdx
              /\ history[AssistantIdx] = AssistantTurn(bot_text)
              /\ history[UserIdx].role = "user"

C6_Witness ==
    /\ streamFailed /\ received = <<"Hello">>
    /\ outcome = "complete" /\ pc = "idle"

\* C7 (as claimed): when fragments arrived before the failure, the assistant
\* entry contains their concatenation, with an error mark.
C7_PartialReplyKept ==
    (streamFailed /\ Truthy(received) /\ outcome = "complete") =>
        /\ Contains(history[AssistantIdx].text, received)
        /\ Contains(history[AssistantIdx].text, GeminiErrorPrefix)

\* C7 (amended): when the stream fails, the assistant entry is exactly the
\* error message, the prefix followed by the exception's text: the fragments
\* received before the failure are replaced by it.
C7_PartialReplyReplacedByError ==
    (streamFailed /\ outcome = "complete") =>
        history[AssistantIdx] = AssistantTurn(GeminiErrorPrefix \o exc[1])

C7_Witness ==
    /\ streamFailed /\ received = <<"Hello", " world">>
    /\ outcome = "complete"
    /\ ~Contains(history[AssistantIdx].text, received)

\* C8 (as claimed): text-to-speech is called only with a non-empty reply of
\* a pass whose try block did not raise.
C8_NoSpeechForError ==
    \A i \in 1..Len(spoken) :
        /\ Truthy(spoken[i].text)
        /\ exc = << >>
        /\ ~IsErrorText(spoken[i].text)

\* C9: while the toggle is off, the pass has made no text-to-speech call.
C9_NoSpeechWhenDisabled ==
    ~tts_enabled => spoken = << >>

C9_Witness ==
    /\ ~tts_enabled /\ eleven_client # None
    /\ outcome = "complete" /\ pc = "idle"
    /\ exc = << >> /\ Truthy(bot_text)
    /\ spoken = << >>

\* C10: from the user append on, whatever happens in the pass, the user
\* entry is in history where it was appended, and every send_message call
\* was made after it, with the same text.
C10_UserEntryKept ==
    /\ outcome # "none" =>
          /\ Len(history) >= UserIdx
          /\ history[UserIdx] = UserTurn(user_prompt)
          /\ Truthy(user_prompt)
    /\ pc \in {"model", "stream", "commit", "tts"} => outcome # "none"
    /\ \A i \in 1..Len(sent) :
          /\ outcome # "none"
          /\ sent[i].prompt = user_prompt

C10_Witness ==
    /\ pc = "idle" /\ outcome = "complete"
    /\ streamFailed /\ ttsFailed
    /\ history[UserIdx] = UserTurn(user_prompt)

\* C11 (as claimed): no failure of a remote operation, the creation of the
\* first session included, leaves the script uncaught: the script never stops
\* before its normal end with an exception.
C11_NoUncaughtFailure ==
    /\ uncaught = << >>
    /\ pc # "crashed"

\* C12: a pass that was rerun between its user append and its assistant
\* append has left the user entry as the last entry of history: no assistant
\* entry, partial or not, was appended for that turn.
C12_CancelledReplyNotCommitted ==
    outcome = "cancelled" =>
        /\ pc = "idle"
        /\ history = Append(h0, UserTurn(user_prompt))

C12_Witness ==
    /\ outcome = "cancelled"
    /\ Len(sent) = 1 /\ received = <<"Hello">> /\ stream = << >>
    /\ placeholder = <<"Hello">> \o Marker
    /\ history[Len(history)].role = "user"

\* C13: every step other than the pass the clear button starts leaves the
\* history it found as a prefix of the history it leaves.
C13_AppendOnly ==
    [][(pc = "idle" /\ event' = "clear") \/ IsPrefix(history, history')]_vars

C13_Witness ==
    /\ event = "language" /\ mic_audio = "audio"
    /\ Len(h0) = 2 /\ Len(history) = 4
    /\ raisedAt = "send" /\ ttsFailed
    /\ SubSeq(history, 1, 2) = h0

\* C14: a pass calls text-to-speech at most once, and only after the
\* assistant entry holding the spoken text was appended as the last entry of
\* history; when the call fails the pass ends with that history and that
\* displayed text, and with nothing played.
C14_SpeechIsBestEffort ==
    /\ Len(spoken) <= 1
    /\ spoken # << >> =>
          /\ outcome = "complete"
          /\ Len(history) = AssistantIdx
          /\ history[AssistantIdx] = AssistantTurn(spoken[1].text)
          /\ bot_text = spoken[1].text
          /\ placeholder = bot_text
    /\ ttsFailed => (pc = "idle" /\ ~played /\ Len(spoken) = 1)

C14_Witness ==
    /\ ttsFailed /\ pc = "idle" /\ raisedAt = "none"
    /\ history[AssistantIdx].text = <<"Hello", " world">>
    /\ placeholder = <<"Hello", " world">>

\* The pair the claim gives for each configured language.
ExpectedPair(l) ==
    CASE l = "Malayalam" -> [code |-> "ml", voice |-> "Aria"]
      [] l = "Hindi"     -> [code |-> "hi", voice |-> "Aria"]
      [] l = "English"   -> [code |-> "en", voice |-> "Bella"]
      [] l = "Spanish"   -> [code |-> "es", voice |-> "Sofia"]
      [] OTHER           -> [code |-> "en", voice |-> "Bella"]

\* C15: the code and the voice a pass reads, and those of every
\* text-to-speech call it makes, are the table's pair for the configured
\* language, and the English pair for a language outside the table.
C15_LookupFallsBackToEnglish ==
    /\ lang_code = ExpectedPair(language).code
    /\ voice_name = ExpectedPair(language).voice
    /\ \A i \in 1..Len(spoken) :
          /\ spoken[i].language_code = ExpectedPair(language).code
          /\ spoken[i].voice = ExpectedPair(language).voice

C15_Witness ==
    /\ language = "Tamil"
    /\ Len(spoken) = 1
    /\ spoken[1].language_code = "en" /\ spoken[1].voice = "Bella"

\* the session creation of this pass's turn raised
createFailed == raisedAt = "create"

\* C16: when the session creation of a turn raised, send_message was not
\* called in the pass, on the stored session or any other, the reply text is
\* the marked error message, and a pass that ends uncancelled has appended
\* exactly that one assistant entry right after the user entry.
C16_CreationFailureEndsTurn ==
    createFailed =>
        /\ sent = << >> /\ reply = << >> /\ received = << >>
        /\ pc \in {"commit", "tts", "idle"}
        /\ IsErrorText(bot_text)
        /\ pc \in {"tts", "idle"} => outcome \in {"complete", "cancelled"}
        /\ outcome = "complete" =>
              /\ Len(history) = AssistantIdx
              /\ history[UserIdx] = UserTurn(user_prompt)
              /\ history[AssistantIdx] = AssistantTurn(GeminiErrorPrefix \o exc[1])

C16_Witness ==
    /\ createFailed /\ outcome = "complete" /\ pc = "idle"
    /\ chat # NoSession /\ Len(chat.memory) = 1
    /\ Len(history) = 4 /\ IsErrorText(history[4].text)

\* C17: under the fairness of FairSpec every turn that has begun leads to
\* the script being idle again; and whatever the earlier passes ended with, a
\* pass started by a typed text alone has appended that text as its user entry
\* and does not end before a session creation or a model call was attempted.
C17_TurnReturnsToIdle ==
    /\ (outcome = "open") ~> (pc = "idle")
    /\ [](event = "text" /\ mic_audio = None =>
            /\ outcome # "none"
            /\ history[UserIdx] = UserTurn(typed)
            /\ pc \in {"commit", "tts", "idle"} /\ outcome # "cancelled" =>
                  (Len(sent) = 1 \/ createFailed))

C17_Witness ==
    /\ Len(h0) = 2 /\ IsErrorText(h0[2].text)
    /\ event = "text" /\ pc = "idle" /\ outcome = "complete"
    /\ Len(sent) = 1 /\ raisedAt = "none"
    /\ history[3] = UserTurn(typed)

RECURSIVE Flatten(_)
\* the concatenation of the fragments fs, in order
Flatten(fs) == IF fs = << >> THEN << >> ELSE Head(fs) \o Flatten(Tail(fs))

\* C18: when the stream ended without an exception, the assistant entry is
\* the concatenation of all fragments of the reply in arrival order; what
\* the placeholder shows while the reply streams is a prefix of that
\* concatenation followed by the cursor; no entry of history holds the cursor.
C18_ReplyIsConcatenation ==
    /\ (raisedAt = "none" /\ outcome = "complete") =>
          /\ Len(sent) = 1
          /\ history[AssistantIdx] = AssistantTurn(Flatten(reply))
    /\ (pc = "stream" /\ Truthy(placeholder)) =>
          /\ SubSeq(placeholder, Len(placeholder), Len(placeholder)) = Marker
          /\ IsPrefix(SubSeq(placeholder, 1, Len(placeholder) - 1), Flatten(reply))
          /\ placeholder = received \o Marker
    /\ \A i \in 1..Len(history) : ~Contains(history[i].text, Marker)

C18_Witness ==
    /\ raisedAt = "none" /\ outcome = "complete"
    /\ Len(h0) = 2
    /\ h0[2].text = <<"Ok">>
    /\ reply = << <<"Hello">>, <<" world">> >>
    /\ history[AssistantIdx].text = <<"Hello", " world">>

\* h has even length and its roles are user, assistant, user, assistant, ...
Alternates(h) ==
    /\ Len(h) % 2 = 0
    /\ \A i \in 1..Len(h) :
          h[i].role = IF i % 2 = 1 THEN "user" ELSE "assistant"

\* C19 (as claimed): whenever no turn is in progress, history has even
\* length and alternates user, assistant, starting with user.
C19_HistoryAlternates ==
    pc \in {"load", "crashed", "idle", "stt"} => Alternates(history)

\* C20: a pass has called send_message at most once and has appended at most
\* one user entry.  When speech-to-text returned, user_prompt is the
\* transcript, the user entry (if the transcript is not empty) holds it, and
\* no entry appended by the pass holds the typed text; when the pass has a
\* typed text and no audio, user_prompt and the user entry are that text.
C20_OneInputPerPass ==
    /\ Len(sent) <= 1
    /\ Len(history) <= Len(h0) + 2
    /\ IsPrefix(h0, history)
    /\ \A i \in (Len(h0) + 2)..Len(history) : history[i].role = "assistant"
    /\ heard # << >> =>
          /\ user_prompt = heard[1]
          /\ IF Truthy(heard[1])
             THEN /\ outcome # "none"
                  /\ history[UserIdx] = UserTurn(heard[1])
             ELSE /\ outcome = "none"
                  /\ history = h0
          /\ \A i \in 1..Len(sent) : sent[i].prompt = heard[1]
          /\ Truthy(typed) =>
                \A i \in (Len(h0) + 1)..Len(history) : history[i].text # typed
    /\ (mic_audio = None /\ Truthy(typed)) =>
          /\ user_prompt = typed
          /\ history[UserIdx] = UserTurn(typed)
          /\ \A i \in 1..Len(sent) : sent[i].prompt = typed

C20_Witness ==
    /\ Truthy(typed) /\ mic_audio = "audio"
    /\ heard = << <<"soil?">> >>
    /\ outcome = "complete"
    /\ history[UserIdx] = UserTurn(<<"soil?">>)
    /\ Len(sent) = 1 /\ sent[1].prompt = <<"soil?">>

====
